---- MODULE Spec2Model ----
(***************************************************************************)
(* The metrics-refresh engine of the terminal dashboard: the TTL cache of  *)
(* SystemInfo, the refresh cycles of CompleteDashboard (initial, timer     *)
(* driven, reduced-frequency and manual), and the severity-driven          *)
(* ErrorHandler.  One action is one macrotask of the Node.js event loop:   *)
(* a callback together with every promise continuation it resumes.         *)
(***************************************************************************)
EXTENDS Integers, Sequences, FiniteSets, TLC

----------------------------------------------------------------------------
(* Program constants *)

\* SystemInfo.cacheTimeout
cacheTimeout == 2000

\* CompleteDashboard.config.updateInterval
updateIntervalConfig == 2000

\* the period hard-coded by temporarilyReduceUpdateFrequency
reducedInterval == 4000

\* ErrorHandler.maxLogSize
maxLogSize == 100

\* the factor 1024 by which getDiskInfo divides sizes down to GB
mbPerGB == 1024

\* Logger.bufferSize
bufferSize == 10

----------------------------------------------------------------------------
(* Bounds of the model *)

\* Date.now() is observed around the multiples 0..MaxPeriods of the TTL
MaxPeriods == 1

\* updateDisplay invocations (and the validation batch) that may be in flight
MaxInFlight == 2

\* refresh cycles that run to their end
MaxUpdates == 2

\* errors the environment injects into the dashboard (screen errors, header
\* failures, process warnings)
MaxErrors == 2

\* failed OS queries counted during refresh cycles
MaxFailures == 1

\* process warnings logged when the error log alone is exercised
MaxLogged == 103

\* cycles measured when the running average alone is exercised, and the
\* longest duration (in ms) measured there
MaxMeasured == 3

MaxDuration == 30

\* filesystems in one report of si.fsSize(), and the largest size reported
\* (in GB) when getDiskInfo alone is exercised
MaxDisks == 3

MaxSize == 1

\* quit requests (quit keys, SIGINT, SIGTERM)
MaxQuits == 2

\* log() calls, and appends to the log file in flight at a time, when the
\* logger alone is exercised
MaxMessages == 11

MaxAppends == 2

----------------------------------------------------------------------------
(* Values *)

Sources == <<"cpu", "memory", "disk", "network">>

SourceSet == {Sources[i] : i \in 1..Len(Sources)}

Slots == 1..MaxInFlight

\* The instants at which the clock is read: the start, and one millisecond
\* before, at, and one millisecond after each multiple of the TTL (which is
\* also the period of the update timer).
Instants ==
  {0} \cup {k * cacheTimeout + j : k \in 1..MaxPeriods, j \in {0 - 1, 0, 1}}

ErrorTypes == {"system", "network", "data", "ui", "performance", "user"}

ErrorSeverity == {"low", "medium", "high", "critical"}

\* A reading produced by a successful OS query; it is identified by the
\* instant at which the OS was asked.
Data(t) == [kind |-> "data", at |-> t]

\* The zeroed / empty value a getter of SystemInfo returns from its catch.
DefaultReading == [kind |-> "default", at |-> 0]

\* The null that safeGetCPUInfo / safeGetMemoryInfo return from their catch.
NullReading == [kind |-> "null", at |-> 0]

\* A widget that has not been given content yet, a getter that has not
\* returned yet.
Blank == [kind |-> "blank", at |-> 0]

\* Map.get(key) of a key the cache does not hold.
NoEntry == [data |-> Blank, timestamp |-> 0 - 1]

\* updateDisplay invocations: the one awaited by startUpdateLoop, the ones of
\* the two interval callbacks, the one of handleRefresh.
CycleKinds == {"init", "timer", "reduced", "refresh"}

IdleCall ==
  [kind |-> "idle", pc |-> [s \in SourceSet |-> "idle"], res |-> [s \in SourceSet |-> Blank],
   start |-> 0]

\* ErrorHandler.errorCounts with no error counted; a key the Map does not hold
\* reads as 0.
ZeroCounts == [k \in ErrorTypes \X ErrorSeverity |-> 0]

\* CompleteDashboard.updateInterval: null, the timer startUpdateLoop arms, the
\* timer temporarilyReduceUpdateFrequency arms.
NoTimer == [period |-> 0, callback |-> "none"]

LoopTimer == [period |-> updateIntervalConfig, callback |-> "loop"]

ReducedTimer == [period |-> reducedInterval, callback |-> "reduced"]

\* No error log has been saved.
NoBundle == [written |-> FALSE, errors |-> <<>>, statistics |-> ZeroCounts]

----------------------------------------------------------------------------
(* State *)

VARIABLES
  now,            \* Date.now()
  cache,          \* SystemInfo.cache
  calls,          \* the getter batches in flight, one per slot
  phase,          \* how far initialize() has come
  isRunning,      \* CompleteDashboard.isRunning
  degradedMode,   \* CompleteDashboard.degradedMode
  updateInterval, \* CompleteDashboard.updateInterval
  updateCount,    \* CompleteDashboard.updateCount
  widgets,        \* the kind of value each metric widget was last given
  errorLog,       \* ErrorHandler.errorLog
  errorCounts,    \* ErrorHandler.errorCounts
  lastErrors,     \* ErrorHandler.lastErrors
  logged,         \* number of logError calls so far (the id of the last entry)
  savedLog,       \* what saveErrorLog handed to the logger last
  proc,           \* the process: "running", "exitScheduled", "exit0", "exit1"
  served,         \* the ages, relative to the TTL, at which getters served entries
  refused,        \* the ages, relative to the TTL, at which getters refused entries
  cycleFailures,  \* OS queries that failed during refresh cycles
  totalUpdates,   \* performanceStats.totalUpdates
  averageUpdateTime, \* performanceStats.averageUpdateTime
  measuredTime,   \* the sum of the durations updatePerformanceStats was given
  sweeps,         \* number of clearExpiredCache calls so far
  fsSize, \* what si.fsSize() reported to getDiskInfo last
  diskReading, \* the reading getDiskInfo built from it
  armed, \* the interval timers armed in the event loop, by callback
  dialogs, \* confirmation dialogs open on the screen
  quits, \* number of handleQuit calls so far
  confirmed, \* number of dialogs answered with y so far
  exitCalls, \* number of handleExit calls so far
  screenDestroyed, \* screen.destroy() has been called
  logBuffer, \* Logger.logBuffer, the messages by the number of their log() call
  appending, \* the batches whose fs.appendFile is in flight
  logFile, \* the messages in the log file, in file order
  lostMessages, \* the messages flush reported lost
  logCalls, \* number of log() calls so far
  configLoaded, \* a ConfigManager has been constructed
  configFile, \* dashboard-config.json
  configTop, \* the scalar top-level properties of ConfigManager.config
  configSections, \* for each nested section of config: the object of defaultConfig (shared) or its own
  configOwn, \* the nested values of the sections config owns
  defaultNested, \* the nested values of the objects of ConfigManager.defaultConfig
  justReset  \* reset() was the last call on the ConfigManager

vars ==
  <<now, cache, calls, phase, isRunning, degradedMode, updateInterval, updateCount,
    widgets, errorLog, errorCounts, lastErrors, logged, savedLog, proc,
    served, refused, cycleFailures, totalUpdates, averageUpdateTime, measuredTime,
    sweeps,
    fsSize,
    diskReading,
    armed,
    dialogs,
    quits,
    confirmed,
    exitCalls,
    screenDestroyed,
    logBuffer,
    appending,
    logFile,
    lostMessages,
    logCalls,
    configLoaded,
    configFile,
    configTop,
    configSections,
    configOwn,
    defaultNested,
    justReset>>

\* The state as one record, so that a handler that calls other handlers is
\* the composition of their effects.
World ==
  [now |-> now, cache |-> cache, calls |-> calls, phase |-> phase,
   isRunning |-> isRunning, degradedMode |-> degradedMode,
   updateInterval |-> updateInterval, updateCount |-> updateCount,
   widgets |-> widgets, errorLog |-> errorLog, errorCounts |-> errorCounts,
   lastErrors |-> lastErrors, logged |-> logged, savedLog |-> savedLog,
   proc |-> proc, served |-> served, refused |-> refused,
   cycleFailures |-> cycleFailures, totalUpdates |-> totalUpdates,
   averageUpdateTime |-> averageUpdateTime, measuredTime |-> measuredTime,
   sweeps |-> sweeps,
   fsSize |-> fsSize,
   diskReading |-> diskReading,
   armed |-> armed,
   dialogs |-> dialogs,
   quits |-> quits,
   confirmed |-> confirmed,
   exitCalls |-> exitCalls,
   screenDestroyed |-> screenDestroyed,
   logBuffer |-> logBuffer,
   appending |-> appending,
   logFile |-> logFile,
   lostMessages |-> lostMessages,
   logCalls |-> logCalls,
   configLoaded |-> configLoaded,
   configFile |-> configFile,
   configTop |-> configTop,
   configSections |-> configSections,
   configOwn |-> configOwn,
   defaultNested |-> defaultNested,
   justReset |-> justReset]

Commit(w) ==
  /\ now' = w.now
  /\ cache' = w.cache
  /\ calls' = w.calls
  /\ phase' = w.phase
  /\ isRunning' = w.isRunning
  /\ degradedMode' = w.degradedMode
  /\ updateInterval' = w.updateInterval
  /\ updateCount' = w.updateCount
  /\ widgets' = w.widgets
  /\ errorLog' = w.errorLog
  /\ errorCounts' = w.errorCounts
  /\ lastErrors' = w.lastErrors
  /\ logged' = w.logged
  /\ savedLog' = w.savedLog
  /\ proc' = w.proc
  /\ served' = w.served
  /\ refused' = w.refused
  /\ cycleFailures' = w.cycleFailures
  /\ totalUpdates' = w.totalUpdates
  /\ averageUpdateTime' = w.averageUpdateTime
  /\ measuredTime' = w.measuredTime
  /\ sweeps' = w.sweeps
  /\ fsSize' = w.fsSize
  /\ diskReading' = w.diskReading
  /\ armed' = w.armed
  /\ dialogs' = w.dialogs
  /\ quits' = w.quits
  /\ confirmed' = w.confirmed
  /\ exitCalls' = w.exitCalls
  /\ screenDestroyed' = w.screenDestroyed
  /\ logBuffer' = w.logBuffer
  /\ appending' = w.appending
  /\ logFile' = w.logFile
  /\ lostMessages' = w.lostMessages
  /\ logCalls' = w.logCalls
  /\ configLoaded' = w.configLoaded
  /\ configFile' = w.configFile
  /\ configTop' = w.configTop
  /\ configSections' = w.configSections
  /\ configOwn' = w.configOwn
  /\ defaultNested' = w.defaultNested
  /\ justReset' = w.justReset

Init ==
  /\ now = 0
  /\ cache = [s \in SourceSet |-> NoEntry]
  /\ calls = [c \in Slots |-> IdleCall]
  /\ phase = "setup"
  /\ isRunning = FALSE
  /\ degradedMode = FALSE
  /\ updateInterval = NoTimer
  /\ updateCount = 0
  /\ widgets = [s \in SourceSet |-> "blank"]
  /\ errorLog = <<>>
  /\ errorCounts = ZeroCounts
  /\ lastErrors = [t \in ErrorTypes |-> 0]
  /\ logged = 0
  /\ savedLog = NoBundle
  /\ proc = "running"
  /\ served = {}
  /\ refused = {}
  /\ cycleFailures = 0
  /\ totalUpdates = 0
  /\ averageUpdateTime = 0
  /\ measuredTime = 0
  /\ sweeps = 0
  /\ fsSize = <<>>
  /\ diskReading = <<>>
  /\ armed = [loop |-> 0, reduced |-> 0]
  /\ dialogs = 0
  /\ quits = 0
  /\ confirmed = 0
  /\ exitCalls = 0
  /\ screenDestroyed = FALSE
  /\ logBuffer = <<>>
  /\ appending = {}
  /\ logFile = <<>>
  /\ lostMessages = {}
  /\ logCalls = 0
  /\ configLoaded = FALSE
  /\ configFile = [exists |-> FALSE, top |-> <<>>, nested |-> <<>>]
  /\ configTop = <<>>
  /\ configSections = <<>>
  /\ configOwn = <<>>
  /\ defaultNested = <<>>
  /\ justReset = FALSE

----------------------------------------------------------------------------
(* ErrorHandler *)

\* the details of a DashboardError that normalizeError did not build
NoDetails == [originalError |-> "", code |-> ""]

\* new DashboardError(message, type, severity, details)
Normalized(type, severity, details) ==
  [typed |-> TRUE, type |-> type, severity |-> severity, code |-> "", syntax |-> FALSE,
   details |-> details]

\* new DashboardError(message, type, severity)
DashboardError(type, severity) == Normalized(type, severity, NoDetails)

\* An error that is no DashboardError: its code and whether it is a SyntaxError.
RawError(code, syntax) ==
  [typed |-> FALSE, type |-> "", severity |-> "", code |-> code, syntax |-> syntax,
   details |-> NoDetails]

\* the codes normalizeError asks for, and "" for any other code or none
ErrorCodes == {"", "ENOENT", "EACCES", "ENOTFOUND", "ECONNREFUSED"}

\* what may be passed to handleError
ErrorInputs ==
  {DashboardError(t, v) : t \in ErrorTypes, v \in ErrorSeverity}
    \cup {RawError(c, y) : c \in ErrorCodes, y \in BOOLEAN}

\* the DashboardErrors among them
TypedErrors == {e \in ErrorInputs : e.typed}

\* normalizeError asking whether the error is a SyntaxError before it looks at
\* the code
normalizeErrorSyntaxFirst(error) ==
  IF error.typed THEN error
  ELSE LET details == [originalError |-> IF error.syntax THEN "SyntaxError" ELSE "Error",
                       code |-> error.code]
       IN IF error.syntax THEN Normalized("data", "medium", details)
          ELSE IF error.code \in {"ENOENT", "EACCES"} THEN Normalized("system", "high", details)
          ELSE IF error.code \in {"ENOTFOUND", "ECONNREFUSED"}
            THEN Normalized("network", "medium", details)
          ELSE Normalized("system", "medium", details)

normalizeError(error) ==
  IF error.typed THEN error
  ELSE LET details == [originalError |-> IF error.syntax THEN "SyntaxError" ELSE "Error",
                       code |-> error.code]
       IN IF error.code \in {"ENOENT", "EACCES"} THEN Normalized("system", "high", details)
          ELSE IF error.code \in {"ENOTFOUND", "ECONNREFUSED"}
            THEN Normalized("network", "medium", details)
          ELSE IF error.syntax THEN Normalized("data", "medium", details)
          ELSE Normalized("system", "medium", details)

\* logError trimming with pop() where the code uses shift()
logErrorPopsNewest(log, entry) ==
  IF Len(log) + 1 > maxLogSize THEN log ELSE Append(log, entry)

\* errorLog after push and the trim to maxLogSize
logError(log, entry) ==
  LET pushed == Append(log, entry)
  IN IF Len(pushed) > maxLogSize THEN Tail(pushed) ELSE pushed

LogError(w, error) ==
  [w EXCEPT
     !.logged = w.logged + 1,
     !.errorLog = logError(w.errorLog,
                           [type |-> error.type, severity |-> error.severity,
                            details |-> error.details, id |-> w.logged + 1])]

\* updateErrorStats setting the count instead of incrementing it
updateErrorStatsOverwrites(w, error) ==
  [w EXCEPT
     !.errorCounts[<<error.type, error.severity>>] = 1,
     !.lastErrors[error.type] = w.logged]

updateErrorStats(w, error) ==
  [w EXCEPT
     !.errorCounts[<<error.type, error.severity>>] = @ + 1,
     !.lastErrors[error.type] = w.logged]

saveErrorLog(w) ==
  [w EXCEPT
     !.savedLog = [written |-> TRUE, errors |-> w.errorLog, statistics |-> w.errorCounts]]

\* this.updateInterval = setInterval(callback, period): one more timer is
\* armed and the handle refers to it
setInterval(w, timer) ==
  [w EXCEPT !.updateInterval = timer, !.armed[timer.callback] = @ + 1]

\* clearInterval(this.updateInterval): the timer the handle refers to is
\* disarmed, if it still is armed; the handle keeps its value
clearInterval(w) ==
  IF w.updateInterval # NoTimer /\ w.armed[w.updateInterval.callback] > 0
  THEN [w EXCEPT !.armed[w.updateInterval.callback] = @ - 1]
  ELSE w

\* temporarilyReduceUpdateFrequency without the clearInterval
temporarilyReduceUpdateFrequencyKeepsOld(w) ==
  IF w.updateInterval # NoTimer THEN setInterval(w, ReducedTimer) ELSE w

\* clearInterval of the armed timer and setInterval(..., 4000), when a timer
\* is armed
temporarilyReduceUpdateFrequency(w) ==
  IF w.updateInterval # NoTimer THEN setInterval(clearInterval(w), ReducedTimer) ELSE w

\* enterDegradedMode with the flag flipped instead of set
enterDegradedModeToggles(w) ==
  temporarilyReduceUpdateFrequency([w EXCEPT !.degradedMode = ~w.degradedMode])

\* enterDegradedMode without the cadence reduction
enterDegradedModeKeepsCadence(w) == [w EXCEPT !.degradedMode = TRUE]

enterDegradedMode(w) ==
  temporarilyReduceUpdateFrequency([w EXCEPT !.degradedMode = TRUE])

cacheClear(w) == [w EXCEPT !.cache = [s \in SourceSet |-> NoEntry]]

recoverFromSystemError(w) == temporarilyReduceUpdateFrequency(cacheClear(w))

\* recoverFromDataError without the cache.clear()
recoverFromDataErrorKeepsCache(w) == w

recoverFromDataError(w) == cacheClear(w)

recoverFromNetworkError(w) == w

attemptRecovery(w, error) ==
  CASE error.type = "system" -> recoverFromSystemError(w)
    [] error.type = "data" -> recoverFromDataError(w)
    [] error.type = "network" -> recoverFromNetworkError(w)
    [] OTHER -> w

\* the status message changes no state of the engine
handleLowSeverityError(w, error) == w

handleMediumSeverityError(w, error) == attemptRecovery(w, error)

\* handleHighSeverityError scheduling the exit as well
handleHighSeverityErrorStops(w, error) ==
  [enterDegradedMode(w) EXCEPT !.proc = "exitScheduled"]

handleHighSeverityError(w, error) == enterDegradedMode(w)

\* saveErrorLog, then setTimeout(() => process.exit(1), 1000)
handleCriticalError(w) ==
  [saveErrorLog(w) EXCEPT !.proc = "exitScheduled"]

handleError(w, error) ==
  LET e == normalizeError(error)
      w1 == LogError(w, e)
      w2 == CASE e.severity = "low" -> handleLowSeverityError(w1, e)
              [] e.severity = "medium" -> handleMediumSeverityError(w1, e)
              [] e.severity = "high" -> handleHighSeverityError(w1, e)
              [] e.severity = "critical" -> handleCriticalError(w1)
  IN updateErrorStats(w2, e)

----------------------------------------------------------------------------
(* SystemInfo *)

\* isInCache with <= where the code has <
isInCacheServesAtTtl(c, key, t) ==
  c[key] # NoEntry /\ t - c[key].timestamp <= cacheTimeout

\* the value isInCache returns at instant t
isInCache(c, key, t) ==
  c[key] # NoEntry /\ t - c[key].timestamp < cacheTimeout

\* isInCache without the delete of an expired entry
cacheAfterIsInCacheKeepsExpired(c, key, t) == c

\* the cache isInCache leaves: an entry it finds expired is deleted
cacheAfterIsInCache(c, key, t) ==
  IF c[key] # NoEntry /\ ~isInCache(c, key, t) THEN [c EXCEPT ![key] = NoEntry] ELSE c

setCache(c, key, data, t) == [c EXCEPT ![key] = [data |-> data, timestamp |-> t]]

\* clearExpiredCache with > where the code has >=
clearExpiredCacheKeepsAtTtl(c, t) ==
  [k \in SourceSet |->
     IF c[k] # NoEntry /\ t - c[k].timestamp > cacheTimeout THEN NoEntry ELSE c[k]]

\* clearExpiredCache: every entry of age >= cacheTimeout is deleted
clearExpiredCache(c, t) ==
  [k \in SourceSet |->
     IF c[k] # NoEntry /\ t - c[k].timestamp >= cacheTimeout THEN NoEntry ELSE c[k]]

\* An age as the lookups are remembered: below the TTL ("fresh"), the last
\* millisecond below it ("edge"), the TTL exactly ("ttl"), the first
\* millisecond above it ("over"), later ("stale").
AgeClass(age) ==
  IF age = cacheTimeout - 1 THEN "edge"
  ELSE IF age < cacheTimeout THEN "fresh"
  ELSE IF age = cacheTimeout THEN "ttl"
  ELSE IF age = cacheTimeout + 1 THEN "over"
  ELSE "stale"

\* the ages of the entries served (hit) and refused (hit = FALSE) when the
\* four getters look their keys up in cache c at instant t
LookupAges(c, t, hit) ==
  {AgeClass(t - c[k].timestamp) :
     k \in {x \in SourceSet : c[x] # NoEntry /\ isInCache(c, x, t) = hit}}

\* The synchronous head of the four getters (getCPUInfo .. getNetworkInfo,
\* called one after the other): each looks its key up, returns the cached data
\* on a hit and otherwise starts its OS query and suspends.
startGetters(w, c, kind) ==
  LET t == w.now
      hit == [k \in SourceSet |-> isInCache(w.cache, k, t)]
      call == [kind |-> kind,
               pc |-> [k \in SourceSet |-> IF hit[k] THEN "hit" ELSE "await"],
               res |-> [k \in SourceSet |-> IF hit[k] THEN w.cache[k].data ELSE Blank],
               start |-> IF kind = "timer" THEN t ELSE 0]
  IN [w EXCEPT
        !.cache = [k \in SourceSet |-> cacheAfterIsInCache(w.cache, k, t)[k]],
        !.calls[c] = call,
        !.served = @ \cup LookupAges(w.cache, t, TRUE),
        !.refused = @ \cup LookupAges(w.cache, t, FALSE)]

\* the catch of a getter that also stores the default it returns
getterCatchCachesDefault(w, c, s) ==
  [w EXCEPT !.calls[c].pc[s] = "failed", !.calls[c].res[s] = DefaultReading,
            !.cache = setCache(w.cache, s, DefaultReading, w.now)]

\* the catch of a getter that also empties the cache
getterCatchClearsCache(w, c, s) ==
  [w EXCEPT !.calls[c].pc[s] = "failed", !.calls[c].res[s] = DefaultReading,
            !.cache = [k \in SourceSet |-> NoEntry]]

\* The catch of getCPUInfo .. getNetworkInfo: the failure is logged (to the
\* logger, not the ErrorHandler) and the default is returned; the promise of
\* the getter is fulfilled.
getterCatch(w, c, s) ==
  [w EXCEPT !.calls[c].pc[s] = "failed", !.calls[c].res[s] = DefaultReading]

\* a getter that returns the reading of its OS query without caching it
getterResumesSkipsCache(w, c, s, ok) ==
  LET call == w.calls[c]
  IN IF ~ok THEN getterCatch(w, c, s)
     ELSE IF s = "cpu" /\ call.pc[s] = "await"
       THEN [w EXCEPT !.calls[c].pc[s] = "await2", !.calls[c].res[s] = Data(w.now)]
     ELSE LET result == IF call.pc[s] = "await2" THEN call.res[s] ELSE Data(w.now)
          IN [w EXCEPT !.calls[c].pc[s] = "ok",
                       !.calls[c].res[s] = result]

\* The getter of source s in call c resumes from an OS query that succeeded
\* (ok) or threw.  getCPUInfo awaits two queries, the other getters one.
getterResumes(w, c, s, ok) ==
  LET call == w.calls[c]
  IN IF ~ok THEN getterCatch(w, c, s)
     ELSE IF s = "cpu" /\ call.pc[s] = "await"
       THEN [w EXCEPT !.calls[c].pc[s] = "await2", !.calls[c].res[s] = Data(w.now)]
     ELSE LET result == IF call.pc[s] = "await2" THEN call.res[s] ELSE Data(w.now)
          IN [w EXCEPT !.cache = setCache(w.cache, s, result, w.now),
                       !.calls[c].pc[s] = "ok",
                       !.calls[c].res[s] = result]

----------------------------------------------------------------------------
(* CompleteDashboard *)

\* what the catch of safeGetCPUInfo .. safeGetNetworkInfo returns
SafeFallback(s) == IF s \in {"cpu", "memory"} THEN NullReading ELSE DefaultReading

\* safeGetCPUInfo .. safeGetNetworkInfo around a getter that has settled: a
\* rejection is reported to the ErrorHandler with severity LOW and replaced
\* by the fallback.
safeGet(w, c, s) ==
  IF w.calls[c].pc[s] = "rejected"
  THEN [handleError(w, DashboardError("system", "low")) EXCEPT
          !.calls[c].pc[s] = "reported", !.calls[c].res[s] = SafeFallback(s)]
  ELSE w

\* the await of updateDisplay resuming as soon as one of the four has resolved
SettledOnFirst(call) == \E s \in SourceSet : call.pc[s] \notin {"idle", "await", "await2"}

\* Promise.all / Promise.allSettled over the four getters has resolved
Settled(call) == \A s \in SourceSet : call.pc[s] \notin {"idle", "await", "await2"}

InFlight(w) == {c \in Slots : w.calls[c].kind # "idle"}

CyclesInFlight(w) == {c \in Slots : w.calls[c].kind \in CycleKinds}

\* Math.round(num / den) of a non-negative quotient
MathRound(num, den) == (2 * num + den) \div (2 * den)

\* updatePerformanceStats without Math.round: the quotient truncated
updatePerformanceStatsTruncates(w, updateTime) ==
  LET n == w.totalUpdates + 1
      totalTime == w.averageUpdateTime * (n - 1) + updateTime
  IN [w EXCEPT !.totalUpdates = n,
               !.averageUpdateTime = totalTime \div n,
               !.measuredTime = w.measuredTime + updateTime]

\* updatePerformanceStats: the duration is folded into the rolling average
updatePerformanceStats(w, updateTime) ==
  LET n == w.totalUpdates + 1
      totalTime == w.averageUpdateTime * (n - 1) + updateTime
  IN [w EXCEPT !.totalUpdates = n,
               !.averageUpdateTime = MathRound(totalTime, n),
               !.measuredTime = w.measuredTime + updateTime]

\* What the caller of updateDisplay does when the call returns: startUpdateLoop
\* arms the timer and initialize sets isRunning; the interval callbacks and
\* handleRefresh render the screen, and the callback of the timer that
\* startUpdateLoop armed folds the time since its start into the statistics.
afterUpdateDisplay(w, c, kind) ==
  LET startTime == IF w.calls[c].kind = "timer" THEN w.calls[c].start ELSE w.now
      w1 == [w EXCEPT !.calls[c] = IdleCall]
  IN IF kind = "init"
     THEN [setInterval(w1, LoopTimer) EXCEPT !.phase = "started", !.isRunning = TRUE]
     ELSE IF kind = "timer" THEN updatePerformanceStats(w1, w.now - startTime)
     ELSE w1

\* updateDisplay if a getter that failed rejected the Promise.all: the catch
\* of updateDisplay handles the error and the rest of the cycle is skipped
finishUpdateDisplayAbortsOnFailure(w, c) ==
  LET call == w.calls[c]
      w1 == [w EXCEPT !.widgets = [s \in SourceSet |-> call.res[s].kind],
                      !.cache = clearExpiredCache(w.cache, w.now),
                      !.sweeps = w.sweeps + 1,
                      !.updateCount = w.updateCount + 1]
  IN IF \E s \in SourceSet : call.pc[s] = "failed"
     THEN afterUpdateDisplay(handleError(w, DashboardError("system", "medium")), c, call.kind)
     ELSE afterUpdateDisplay(w1, c, call.kind)

\* updateDisplay without the call of clearExpiredCache
finishUpdateDisplaySkipsSweep(w, c) ==
  LET call == w.calls[c]
      w1 == [w EXCEPT !.widgets = [s \in SourceSet |-> call.res[s].kind],
                      !.updateCount = w.updateCount + 1]
  IN afterUpdateDisplay(w1, c, call.kind)

\* updateDisplay after Promise.all: the widgets are given the four results,
\* the expired entries are swept, the update is counted.
finishUpdateDisplay(w, c) ==
  LET call == w.calls[c]
      w1 == [w EXCEPT !.widgets = [s \in SourceSet |-> call.res[s].kind],
                      !.cache = clearExpiredCache(w.cache, w.now),
                      !.sweeps = w.sweeps + 1,
                      !.updateCount = w.updateCount + 1]
  IN afterUpdateDisplay(w1, c, call.kind)

\* updateDisplay up to its await: the header is set (headerThrows: setContent
\* throws, which the catch of updateDisplay reports as SYSTEM/MEDIUM), then the
\* four safeGet calls start; when all four hit the cache the call runs to
\* its end without suspending at an OS query.
updateDisplay(w, c, kind, headerThrows) ==
  IF headerThrows
  THEN afterUpdateDisplay(handleError(w, DashboardError("system", "medium")), c, kind)
  ELSE LET w1 == startGetters(w, c, kind)
       IN IF Settled(w1.calls[c]) THEN finishUpdateDisplay(w1, c) ELSE w1

\* afterValidation with the timer armed before the first updateDisplay is
\* awaited
afterValidationArmsFirst(w, c, headerThrows) ==
  LET call == w.calls[c]
  IN IF call.pc["cpu"] = "rejected" /\ call.pc["memory"] = "rejected"
     THEN handleError([w EXCEPT !.calls[c] = IdleCall, !.phase = "failed"],
                      DashboardError("system", "critical"))
     ELSE updateDisplay(setInterval([w EXCEPT !.phase = "initialUpdate"], LoopTimer),
                        c, "init", headerThrows)

\* validateSystemCapabilities after Promise.allSettled, and initialize after
\* it: with neither CPU nor memory the CRITICAL error reaches the catch of
\* initialize, otherwise startUpdateLoop calls updateDisplay.
afterValidation(w, c, headerThrows) ==
  LET call == w.calls[c]
  IN IF call.pc["cpu"] = "rejected" /\ call.pc["memory"] = "rejected"
     THEN handleError([w EXCEPT !.calls[c] = IdleCall, !.phase = "failed"],
                      DashboardError("system", "critical"))
     ELSE updateDisplay([w EXCEPT !.phase = "initialUpdate"], c, "init", headerThrows)

\* One macrotask: the OS query of source s in call c returns, the getter
\* resumes, and every continuation that is now ready runs.
osQueryReturns(w, c, s, ok, headerThrows) ==
  LET kind == w.calls[c].kind
      w1 == getterResumes(w, c, s, ok)
      w2 == IF kind \in CycleKinds THEN safeGet(w1, c, s) ELSE w1
      w3 == IF kind \in CycleKinds /\ ~ok
            THEN [w2 EXCEPT !.cycleFailures = w2.cycleFailures + 1] ELSE w2
  IN IF ~Settled(w3.calls[c]) THEN w3
     ELSE IF kind = "validate" THEN afterValidation(w3, c, headerThrows)
     ELSE finishUpdateDisplay(w3, c)

\* handleRefresh without the cache.clear()
\* handleExit without the check of isRunning
handleExitUnguarded(w) ==
  [saveErrorLog(clearInterval([w EXCEPT !.exitCalls = @ + 1, !.isRunning = FALSE])) EXCEPT
     !.screenDestroyed = TRUE, !.proc = "exit0"]

\* handleExit: nothing unless isRunning; otherwise isRunning is reset, the
\* timer cleared, the error log saved, the screen destroyed and the process
\* exits with status 0
handleExit(w) ==
  IF ~w.isRunning THEN [w EXCEPT !.exitCalls = @ + 1]
  ELSE [saveErrorLog(clearInterval([w EXCEPT !.exitCalls = @ + 1, !.isRunning = FALSE])) EXCEPT
          !.screenDestroyed = TRUE, !.proc = "exit0"]

\* handleQuit calling handleExit at once, without the dialog
handleQuitSkipsDialog(w) == handleExit([w EXCEPT !.quits = @ + 1])

\* handleQuit: the confirmation dialog is shown
handleQuit(w) == [w EXCEPT !.quits = @ + 1, !.dialogs = @ + 1]

\* A key is pressed in a confirmation dialog: the dialog is removed; y calls
\* handleExit, n and escape call nothing.
dialogKey(w, key) ==
  LET w1 == [w EXCEPT !.dialogs = @ - 1]
  IN IF key = "y" THEN handleExit([w1 EXCEPT !.confirmed = @ + 1]) ELSE w1

handleRefreshKeepsCache(w, c, headerThrows) == updateDisplay(w, c, "refresh", headerThrows)

\* handleRefresh: the cache is cleared, then updateDisplay is called
handleRefresh(w, c, headerThrows) ==
  updateDisplay(cacheClear(w), c, "refresh", headerThrows)

FreeSlot(w) == CHOOSE c \in Slots : w.calls[c].kind = "idle" /\ \A d \in Slots : d < c => w.calls[d].kind # "idle"

Alive == proc \in {"running", "exitScheduled"}

----------------------------------------------------------------------------
(* Environments *)

\* What the surroundings of the engine may do in a specification: whether an
\* OS query may throw (outcomes), whether setContent of the header may throw
\* (headers), whether a tick or a key press may arrive while an
\* updateDisplay is still awaiting its getters (overlap), and how many OS
\* queries of refresh cycles may throw (failures).
FullEnv ==
  [outcomes |-> BOOLEAN, headers |-> BOOLEAN, overlap |-> TRUE, failures |-> MaxFailures]

\* The surroundings of the cache: OS queries fail or succeed, the header is
\* always set, and every call of updateDisplay ends before the next begins.
CacheEnv ==
  [outcomes |-> BOOLEAN, headers |-> {FALSE}, overlap |-> FALSE, failures |-> MaxFailures]

\* The surroundings of the scheduler: OS queries succeed, however late; the
\* header may fail; ticks and key presses arrive at any time.
SchedEnv ==
  [outcomes |-> {TRUE}, headers |-> BOOLEAN, overlap |-> TRUE, failures |-> MaxFailures]

\* The surroundings of the ErrorHandler and of the life cycle: OS queries
\* succeed, the header is set, calls of updateDisplay do not overlap.
QuietEnv ==
  [outcomes |-> {TRUE}, headers |-> {FALSE}, overlap |-> FALSE, failures |-> MaxFailures]

\* The surroundings of a cycle whose collections fail: any OS query of any
\* cycle may throw; the header is set, calls of updateDisplay do not overlap.
FailEnv ==
  [outcomes |-> BOOLEAN, headers |-> {FALSE}, overlap |-> FALSE,
   failures |-> MaxUpdates * Len(Sources)]

----------------------------------------------------------------------------
(* Actions *)

\* createScreen, setupUI and setupEventHandling have run; initialize calls
\* validateSystemCapabilities, which starts the four getters.
Validate ==
  /\ Alive
  /\ phase = "setup"
  /\ Commit(startGetters([World EXCEPT !.phase = "validate"], FreeSlot(World), "validate"))

\* createScreen, setupUI or setupEventHandling throws: the catch of initialize
\* hands a CRITICAL error to the ErrorHandler.
InitializeFails ==
  /\ Alive
  /\ phase = "setup"
  /\ Commit(handleError([World EXCEPT !.phase = "failed"], DashboardError("system", "critical")))

\* An OS query returns or throws.
OsQueryReturns(env) ==
  /\ Alive
  /\ \E c \in Slots, s \in SourceSet, ok \in env.outcomes, headerThrows \in env.headers :
       /\ calls[c].pc[s] \in {"await", "await2"}
       /\ ~ok /\ calls[c].kind \in CycleKinds => cycleFailures < env.failures
       /\ headerThrows => logged < MaxErrors /\ calls[c].kind = "validate"
       /\ Commit(osQueryReturns(World, c, s, ok, headerThrows))

\* An armed interval fires.  Its callback does nothing unless isRunning; it
\* does not ask whether an earlier updateDisplay is still awaiting its getters.
TimerTick(env) ==
  /\ Alive
  /\ isRunning
  /\ updateCount < MaxUpdates
  /\ \E c \in Slots : calls[c].kind = "idle"
  /\ env.overlap \/ InFlight(World) = {}
  /\ \E callback \in {"loop", "reduced"} : \E headerThrows \in env.headers :
       /\ armed[callback] > 0
       /\ headerThrows => logged < MaxErrors
       /\ Commit(updateDisplay(World, FreeSlot(World),
                               IF callback = "loop" THEN "timer" ELSE "reduced",
                               headerThrows))

\* Key r: handleRefresh clears the cache and calls updateDisplay.
HandleRefresh(env) ==
  /\ Alive
  /\ phase \notin {"setup", "failed"}
  /\ updateCount < MaxUpdates
  /\ \E c \in Slots : calls[c].kind = "idle"
  /\ env.overlap \/ InFlight(World) = {}
  /\ \E headerThrows \in env.headers :
       /\ headerThrows => logged < MaxErrors
       /\ Commit(handleRefresh(World, FreeSlot(World), headerThrows))

\* Key c: handleClearCache.
HandleClearCache ==
  /\ Alive
  /\ phase \notin {"setup", "failed"}
  /\ \E s \in SourceSet : cache[s] # NoEntry
  /\ Commit(cacheClear(World))

\* The screen emits "error": the handler createScreen registered reports UI/HIGH.
ScreenError ==
  /\ Alive
  /\ phase \notin {"setup", "failed"}
  /\ logged < MaxErrors
  /\ Commit(handleError(World, DashboardError("ui", "high")))

\* handleError is called with an error.
HandleError(inputs) ==
  /\ Alive
  /\ logged < MaxErrors
  /\ \E e \in inputs : Commit(handleError(World, e))

\* clearErrorLog is called.
ClearErrorLog ==
  /\ Alive
  /\ errorLog # <<>>
  /\ Commit([World EXCEPT !.errorLog = <<>>, !.errorCounts = ZeroCounts,
                           !.lastErrors = [t \in ErrorTypes |-> 0]])

\* updatePerformanceStats is called with the duration of a cycle.
MeasureCycle ==
  /\ Alive
  /\ totalUpdates < MaxMeasured
  /\ \E updateTime \in 0..MaxDuration : Commit(updatePerformanceStats(World, updateTime))

\* The process emits "warning": the handler logs it and does nothing else.
ProcessWarning(cap) ==
  /\ Alive
  /\ logged < cap
  /\ Commit(LogError(World, DashboardError("performance", "low")))

\* uncaughtException or unhandledRejection.
UncaughtException ==
  /\ proc = "running"
  /\ Commit(handleCriticalError(World))

\* The timeout handleCriticalError set fires.
CriticalExit ==
  /\ proc = "exitScheduled"
  /\ Commit([World EXCEPT !.proc = "exit1"])

\* The quit dialog is confirmed: handleExit.
HandleExit ==
  /\ Alive
  /\ isRunning
  /\ Commit(handleExit([World EXCEPT !.confirmed = @ + 1]))

\* A quit key is pressed or SIGINT or SIGTERM arrives, once the event
\* handlers are registered: handleQuit.
HandleQuit ==
  /\ Alive
  /\ phase # "setup"
  /\ quits < MaxQuits
  /\ Commit(handleQuit(World))

\* A key is pressed in an open confirmation dialog.  Escape is a quit key of
\* the screen too: the screen may run handleQuit on it as well (bubbles).
DialogKey ==
  /\ Alive
  /\ dialogs > 0
  /\ \E key \in {"y", "n", "escape"} : \E bubbles \in BOOLEAN :
       /\ bubbles => key = "escape" /\ quits < MaxQuits
       /\ Commit(IF bubbles THEN handleQuit(dialogKey(World, key))
                 ELSE dialogKey(World, key))

\* Time passes.
Advance ==
  /\ Alive
  /\ \E t \in Instants : t > now /\ Commit([World EXCEPT !.now = t])

Next ==
  \/ Validate
  \/ InitializeFails
  \/ OsQueryReturns(FullEnv)
  \/ TimerTick(FullEnv)
  \/ HandleRefresh(FullEnv)
  \/ HandleClearCache
  \/ ScreenError
  \/ ProcessWarning(MaxErrors)
  \/ UncaughtException
  \/ CriticalExit
  \/ HandleExit
  \/ Advance

Spec == Init /\ [][Next]_vars

\* The cache and the refresh cycles under a passing clock.
NextCache ==
  \/ Validate
  \/ OsQueryReturns(CacheEnv)
  \/ TimerTick(CacheEnv)
  \/ HandleRefresh(CacheEnv)
  \/ HandleClearCache
  \/ Advance

SpecCache == Init /\ [][NextCache]_vars

\* The scheduler and the ErrorHandler: overlapping calls of updateDisplay,
\* screen errors and header failures, with the clock standing still.
NextSched ==
  \/ Validate
  \/ OsQueryReturns(SchedEnv)
  \/ TimerTick(SchedEnv)
  \/ HandleRefresh(SchedEnv)
  \/ ScreenError

SpecSched == Init /\ [][NextSched]_vars

\* normalizeError alone: handleError called with every kind of error.
NextClassify == HandleError(ErrorInputs)

SpecClassify == Init /\ [][NextClassify]_vars

\* The ErrorHandler at work in the running dashboard, handed DashboardErrors
\* of every type and severity.
NextErr ==
  \/ Validate
  \/ OsQueryReturns(QuietEnv)
  \/ TimerTick(QuietEnv)
  \/ HandleError(TypedErrors)
  \/ CriticalExit

SpecErr == Init /\ [][NextErr]_vars

\* The life cycle: start, refreshes, critical failures, quit.  The timeout
\* handleCriticalError sets fires unless the process has exited before.
NextLife ==
  \/ Validate
  \/ InitializeFails
  \/ OsQueryReturns(QuietEnv)
  \/ TimerTick(QuietEnv)
  \/ HandleRefresh(QuietEnv)
  \/ UncaughtException
  \/ CriticalExit
  \/ HandleExit

SpecLife == Init /\ [][NextLife]_vars /\ WF_vars(CriticalExit)

\* Refresh cycles in which any of the OS queries fail.
NextFail ==
  \/ Validate
  \/ OsQueryReturns(FailEnv)
  \/ TimerTick(FailEnv)
  \/ HandleRefresh(FailEnv)

SpecFail == Init /\ [][NextFail]_vars

\* The error statistics alone: errors handled, the log cleared.
NextStats ==
  \/ HandleError(TypedErrors)
  \/ ClearErrorLog

SpecStats == Init /\ [][NextStats]_vars

\* The running average alone: cycles of every duration measured.
NextPerf == MeasureCycle

SpecPerf == Init /\ [][NextPerf]_vars

\* The error log alone: process warnings, each logged by logError.
NextLog == ProcessWarning(MaxLogged)

SpecLog == Init /\ [][NextLog]_vars

----------------------------------------------------------------------------
(* getDiskInfo *)

\* The reports of si.fsSize(): up to MaxDisks filesystems, each with a name
\* and a size, counted here in MB (none, one MB, whole gigabytes).
DiskSizes == {0, 1} \cup {k * mbPerGB : k \in 1..MaxSize}

DiskEntries == [fs : {"/dev/sda1", "tmpfs"}, size : DiskSizes]

DiskReports == UNION {[1..n -> DiskEntries] : n \in 0..MaxDisks}

\* what map() makes of one filesystem: the size in hundredths of a GB
diskEntry(disk) ==
  [filesystem |-> disk.fs, size |-> MathRound(disk.size * 100, mbPerGB)]

\* the filter of getDiskInfo with >= where the code has >
diskResultKeepsEmpty(diskInfo) ==
  LET kept == SelectSeq(diskInfo, LAMBDA disk : disk.size >= 0)
  IN [i \in 1..Len(kept) |-> diskEntry(kept[i])]

\* diskInfo.filter((disk) => disk.size > 0).map(...)
diskResult(diskInfo) ==
  LET kept == SelectSeq(diskInfo, LAMBDA disk : disk.size > 0)
  IN [i \in 1..Len(kept) |-> diskEntry(kept[i])]

\* getDiskInfo on a miss, its OS query succeeding: the report is filtered and
\* mapped, the result cached and returned.
getDiskInfo(w, diskInfo) ==
  [w EXCEPT !.fsSize = diskInfo,
            !.diskReading = diskResult(diskInfo),
            !.cache = setCache(w.cache, "disk", Data(w.now), w.now)]

\* getDiskInfo is called while the cache holds no fresh disk entry, and
\* si.fsSize() returns a report.
GetDiskInfo ==
  /\ Alive
  /\ ~isInCache(cache, "disk", now)
  /\ \E diskInfo \in DiskReports : Commit(getDiskInfo(World, diskInfo))

\* Quitting: the dashboard starts and runs, quit requests and answers to
\* the confirmation dialog arrive at any moment.
NextQuit ==
  \/ Validate
  \/ OsQueryReturns(QuietEnv)
  \/ TimerTick(QuietEnv)
  \/ ScreenError
  \/ HandleQuit
  \/ DialogKey

SpecQuit == Init /\ [][NextQuit]_vars

\* getDiskInfo alone: every report of the OS.
NextDisk == GetDiskInfo

SpecDisk == Init /\ [][NextDisk]_vars

----------------------------------------------------------------------------
(* Logger *)

\* flush: nothing on an empty buffer; otherwise the buffer is taken and
\* emptied and fs.appendFile is called with its messages
flush(w) ==
  IF w.logBuffer = <<>> THEN w
  ELSE [w EXCEPT !.appending = @ \cup {w.logBuffer}, !.logBuffer = <<>>]

\* log: the message is pushed on the buffer, which is flushed at once for
\* an error and when it has reached bufferSize
log(w, level) ==
  LET w1 == [w EXCEPT !.logCalls = @ + 1, !.logBuffer = Append(@, w.logCalls + 1)]
  IN IF level = "error" \/ Len(w1.logBuffer) >= bufferSize THEN flush(w1) ELSE w1

\* fs.appendFile of a batch settles: the batch is at the end of the file, or
\* the catch of flush reports its messages lost
appendSettles(w, batch, ok) ==
  IF ok THEN [w EXCEPT !.appending = @ \ {batch}, !.logFile = @ \o batch]
  ELSE [w EXCEPT !.appending = @ \ {batch},
                 !.lostMessages = @ \cup {batch[i] : i \in 1..Len(batch)}]

\* log() is called.
Log ==
  /\ Alive
  /\ logCalls < MaxMessages
  /\ \E level \in {"info", "error"} :
       /\ level = "error" \/ Len(logBuffer) + 1 >= bufferSize
            => Cardinality(appending) < MaxAppends
       /\ Commit(log(World, level))

\* The flush timer fires.
FlushTimer ==
  /\ Alive
  /\ logBuffer # <<>>
  /\ Cardinality(appending) < MaxAppends
  /\ Commit(flush(World))

\* An fs.appendFile in flight settles.  Appends in flight at the same time
\* run in the thread pool and settle in any order.
AppendSettles ==
  /\ Alive
  /\ \E batch \in appending : \E ok \in BOOLEAN : Commit(appendSettles(World, batch, ok))

\* The logger alone.
NextLogger ==
  \/ Log
  \/ FlushTimer
  \/ AppendSettles

SpecLogger == Init /\ [][NextLogger]_vars

-----------------------------------------------------------------------------
(* ConfigManager *)

\* The keys of the configuration that the model follows: two scalar
\* properties of the top-level object and properties in the nested objects
\* widgets and alerts.
TopKeys == {"theme", "updateInterval"}

NestedKeys == {"widgets.cpu.enabled", "widgets.docker.enabled", "alerts.cpu.threshold"}

ConfigKeys == TopKeys \cup NestedKeys

ConfigSections == {"widgets", "alerts"}

\* key.split(".")[0] of a nested key.
sectionOf(key) == IF key = "alerts.cpu.threshold" THEN "alerts" ELSE "widgets"

\* The literal of the constructor.
defaultConfig ==
  [k \in ConfigKeys |->
     CASE k = "theme" -> "default"
       [] k = "updateInterval" -> "2000"
       [] k = "widgets.cpu.enabled" -> "true"
       [] k = "widgets.docker.enabled" -> "false"
       [] k = "alerts.cpu.threshold" -> "80"]

\* The values a caller of set() passes for a key.
ConfigValues(key) ==
  CASE key = "theme" -> {"default", "dark"}
    [] key = "updateInterval" -> {"2000", "1000"}
    [] key = "widgets.cpu.enabled" -> {"true", "false"}
    [] key = "widgets.docker.enabled" -> {"true", "false"}
    [] key = "alerts.cpu.threshold" -> {"80", "90"}

\* dashboard-config.json is absent or holds what an earlier saveConfig wrote:
\* a whole configuration.
ConfigFiles ==
  {[exists |-> FALSE, top |-> <<>>, nested |-> <<>>]} \cup
  {[exists |-> TRUE, top |-> t, nested |-> n] :
     t \in {f \in [TopKeys -> UNION {ConfigValues(k) : k \in TopKeys}] : \A k \in TopKeys : f[k] \in ConfigValues(k)},
     n \in {f \in [NestedKeys -> UNION {ConfigValues(k) : k \in NestedKeys}] : \A k \in NestedKeys : f[k] \in ConfigValues(k)}}

\* get(key): walks the dotted key from this.config.  A nested object of
\* config is either the object defaultConfig holds (the spread copies the
\* reference) or the one JSON.parse made.
configGet(w, key) ==
  IF key \in TopKeys THEN w.configTop[key]
  ELSE IF w.configSections[sectionOf(key)] = "own" THEN w.configOwn[key]
  ELSE w.defaultNested[key]

\* saveConfig(): JSON.stringify(this.config) written to the file.
saveConfig(w) ==
  [w EXCEPT !.configFile =
     [exists |-> TRUE, top |-> w.configTop,
      nested |-> [k \in NestedKeys |-> configGet(w, k)]]]

\* The constructor: defaultConfig is built, then loadConfig() spreads it and,
\* over it, the parsed file.
loadConfig(w, file) ==
  [w EXCEPT !.configLoaded = TRUE,
            !.configFile = file,
            !.defaultNested = [k \in NestedKeys |-> defaultConfig[k]],
            !.configTop = IF file.exists THEN file.top
                          ELSE [k \in TopKeys |-> defaultConfig[k]],
            !.configSections = [s \in ConfigSections |->
                                  IF file.exists THEN "own" ELSE "shared"],
            !.configOwn = IF file.exists THEN file.nested
                          ELSE [k \in NestedKeys |-> defaultConfig[k]],
            !.justReset = FALSE]

\* set(key, value): the reduce walks to the object that holds the last key
\* and assigns there; for a nested key that object may be defaultConfig's.
configSet(w, key, value) ==
  saveConfig(
    [(IF key \in TopKeys THEN [w EXCEPT !.configTop[key] = value]
      ELSE IF w.configSections[sectionOf(key)] = "own"
           THEN [w EXCEPT !.configOwn[key] = value]
           ELSE [w EXCEPT !.defaultNested[key] = value])
     EXCEPT !.justReset = FALSE])

\* reset(): this.config = { ...this.defaultConfig }, then saveConfig().
configReset(w) ==
  saveConfig(
    [w EXCEPT !.configTop = [k \in TopKeys |-> defaultConfig[k]],
              !.configSections = [s \in ConfigSections |-> "shared"],
              !.justReset = TRUE])

NewConfigManager ==
  /\ ~configLoaded
  /\ \E file \in ConfigFiles : Commit(loadConfig(World, file))

ConfigSet ==
  /\ configLoaded
  /\ \E key \in ConfigKeys : \E value \in ConfigValues(key) :
       Commit(configSet(World, key, value))

ConfigReset ==
  /\ configLoaded
  /\ Commit(configReset(World))

NextConfig ==
  \/ NewConfigManager
  \/ ConfigSet
  \/ ConfigReset

SpecConfig == Init /\ [][NextConfig]_vars

----------------------------------------------------------------------------
(* The TTL cache *)

\* C1: no getter ever returns a cached reading whose age (now - timestamp) has
\* reached cacheTimeout, whatever the interleaving of cycles, refreshes, cache
\* clears and sweeps and whether or not the entry was swept; an entry one
\* millisecond short of the TTL is served, one at or past the TTL is refused.
TtlInvariant ==
  /\ served \subseteq {"fresh", "edge"}
  /\ refused \subseteq {"ttl", "over", "stale"}

\* An entry has been served at age cacheTimeout - 1 and an entry has been
\* refused at age cacheTimeout + 1.
TtlWitness == "edge" \in served /\ "over" \in refused

\* the failing getter of call c is s, and no other getter of the call failed
OnlyFailure(c, s) ==
  /\ calls[c].kind \in CycleKinds
  /\ calls[c].pc[s] \in {"await", "await2"}
  /\ \A t \in SourceSet \ {s} : calls[c].pc[t] # "failed"

\* C3: in a cycle in which exactly one source's OS query fails, the readings
\* of the other three sources are what they would be had the query succeeded,
\* and the failure neither removes nor alters a cache entry of those three.
FailureIsolation ==
  \A c \in Slots, s \in SourceSet :
    OnlyFailure(c, s) =>
      LET gf == getterResumes(World, c, s, FALSE)
          go == getterResumes(World, c, s, TRUE)
          wf == osQueryReturns(World, c, s, FALSE, FALSE)
          wo == osQueryReturns(World, c, s, TRUE, FALSE)
      IN \A t \in SourceSet \ {s} :
           /\ gf.cache[t] = cache[t]
           /\ gf.calls[c].res[t] = go.calls[c].res[t]
           /\ gf.calls[c].pc[t] = go.calls[c].pc[t]
           /\ (wf.calls[c].kind = "idle" /\ wo.calls[c].kind = "idle") =>
                /\ wf.widgets[t] = wo.widgets[t]
                /\ wf.cache[t] = wo.cache[t]

\* A cycle has ended in which one source failed; the other three widgets show
\* data and their entries are in the cache.
FailureIsolationWitness ==
  /\ cycleFailures = 1
  /\ \E s \in SourceSet :
       /\ widgets[s] = "default"
       /\ \A t \in SourceSet \ {s} : widgets[t] = "data" /\ cache[t] # NoEntry

\* C4: every failed collection of a source during a cycle is reported once to
\* handleError with severity LOW, and so is counted in the error statistics.
EveryFailureReported == cycleFailures = errorCounts[<<"system", "low">>]

\* C5: when the disk query fails and the other three succeed, the refresh
\* yields no reading (null) and an error for disk, and readings for the rest.
DiskFailureYieldsNull ==
  (/\ widgets["disk"] \in {"default", "null"}
   /\ \A t \in SourceSet \ {"disk"} : widgets[t] = "data")
  => (widgets["disk"] = "null" /\ errorCounts[<<"system", "low">>] > 0)

\* a step in which an OS query of a cycle failed
FailureStep == cycleFailures' # cycleFailures

\* C6: a failed collection leaves the cache as it is: the default reading is
\* never in the cache, and the step of the failure removes no entry (the sweep
\* at the end of the cycle removes expired ones only) and inserts none, so the
\* next cycle queries the OS again.
FailureLeavesCache ==
  /\ [](\A k \in SourceSet : cache[k] = NoEntry \/ cache[k].data.kind = "data")
  /\ [][FailureStep =>
          \A k \in SourceSet :
            \/ cache'[k] = cache[k]
            \/ /\ cache[k] # NoEntry
               /\ now - cache[k].timestamp >= cacheTimeout
               /\ cache'[k] = NoEntry]_vars

\* The widget of a source shows the default of a failed collection, and the
\* next cycle is awaiting the OS query of that source again while the entry of
\* another source is still cached.
FailureLeavesCacheWitness ==
  /\ cycleFailures > 0
  /\ \E c \in Slots, s \in SourceSet :
       /\ calls[c].kind \in CycleKinds
       /\ widgets[s] = "default"
       /\ calls[c].pc[s] \in {"await", "await2"}
       /\ cache[s] = NoEntry

----------------------------------------------------------------------------
(* The scheduler and degraded mode *)

\* C2: at no time are two calls of updateDisplay in progress at once.
NoCycleOverlap == Cardinality(CyclesInFlight(World)) <= 1

\* a step in which a HIGH error was handled
HighHandled ==
  \E t \in ErrorTypes : errorCounts'[<<t, "high">>] > errorCounts[<<t, "high">>]

\* C7: handling a HIGH error leaves degradedMode true and the armed timer at
\* twice the configured period, also when it is handled a second time.
HighDoublesOnce ==
  [][HighHandled =>
       /\ degradedMode'
       /\ updateInterval # NoTimer =>
            updateInterval'.period = 2 * updateIntervalConfig]_vars

\* Two HIGH errors have been handled and the armed timer has twice the
\* configured period.
HighDoublesOnceWitness ==
  /\ errorCounts[<<"ui", "high">>] = 2
  /\ degradedMode
  /\ updateInterval.period = 2 * updateIntervalConfig

\* C8: degradedMode starts false and, once true, stays true.
DegradedModeSticks ==
  /\ ~degradedMode
  /\ [][degradedMode => degradedMode']_vars

\* After the HIGH error that set degradedMode, a MEDIUM error was handled and
\* a refresh cycle ran to its end.
DegradedModeSticksWitness ==
  /\ degradedMode
  /\ lastErrors["ui"] > 0
  /\ lastErrors["system"] > lastErrors["ui"]
  /\ updateCount > 0

\* C9: whenever degradedMode is true and the timer is armed, the armed period
\* is the reduced one.
DegradedRunsReduced ==
  degradedMode /\ updateInterval # NoTimer => updateInterval.period = reducedInterval

----------------------------------------------------------------------------
(* The error log *)

\* C10: the error log never holds more than maxLogSize entries, and holds the
\* most recently logged ones in the order they were logged.
RingLog ==
  /\ Len(errorLog) <= maxLogSize
  /\ Len(errorLog) = (IF logged <= maxLogSize THEN logged ELSE maxLogSize)
  /\ \A i \in 1..Len(errorLog) : errorLog[i].id = logged - Len(errorLog) + i

\* maxLogSize + 3 errors have been logged.
RingLogWitness == logged = maxLogSize + 3 /\ Len(errorLog) = maxLogSize

----------------------------------------------------------------------------
(* Severity dispatch *)

\* a step in which handleError handled an error of one of the severities
Handled(severities) ==
  \E t \in ErrorTypes, v \in severities :
    errorCounts'[<<t, v>>] > errorCounts[<<t, v>>]

\* C11: handling a LOW or MEDIUM error of any type leaves the armed refresh
\* period and degradedMode as they were.
LowMediumStayLocal ==
  [][Handled({"low", "medium"}) =>
       /\ degradedMode' = degradedMode
       /\ updateInterval # NoTimer => updateInterval' = updateInterval]_vars

\* C12: only CRITICAL ends the process: the process leaves "running" only with
\* a CRITICAL error counted, and handling a LOW, MEDIUM or HIGH error leaves
\* the process and isRunning as they were and an armed timer armed.
OnlyCriticalTerminates ==
  /\ [](proc # "running" => \E t \in ErrorTypes : errorCounts[<<t, "critical">>] > 0)
  /\ [][Handled({"low", "medium", "high"}) =>
          /\ proc' = proc
          /\ isRunning' = isRunning
          /\ updateInterval # NoTimer => updateInterval' # NoTimer]_vars

\* A HIGH and a MEDIUM error have been handled; the process runs, the
\* dashboard is running and the timer is armed.
OnlyCriticalTerminatesWitness ==
  /\ \E t \in ErrorTypes : errorCounts[<<t, "high">>] > 0
  /\ \E t \in ErrorTypes : errorCounts[<<t, "medium">>] > 0
  /\ proc = "running"
  /\ isRunning
  /\ updateInterval # NoTimer

\* C13: a CRITICAL error flushes the diagnostics before the exit, and once it
\* has been handled the process exits with status 1.
CriticalFlushThenExit ==
  /\ [](proc = "exit1" => savedLog.written)
  /\ (proc = "exitScheduled") ~> (proc = "exit1")

\* the entries of a saved error log that are CRITICAL errors of type t
SavedCriticals(t) ==
  {i \in DOMAIN savedLog.errors :
     savedLog.errors[i].type = t /\ savedLog.errors[i].severity = "critical"}

\* C14: the bundle written on a critical failure holds the error log and the
\* statistics, the critical failure itself included, on every path to
\* handleCriticalError.
BundleHoldsCriticalFailure ==
  proc = "exitScheduled" =>
    /\ savedLog.written
    /\ \E t \in ErrorTypes : SavedCriticals(t) # {}
    /\ \E t \in ErrorTypes : savedLog.statistics[<<t, "critical">>] > 0

\* C15: an error is counted in the statistics before its severity action
\* runs: the CRITICAL errors in the log that the critical action saved are
\* counted in the statistics it saved.
CountedBeforeDispatch ==
  savedLog.written =>
    \A t \in ErrorTypes :
      Cardinality(SavedCriticals(t)) <= savedLog.statistics[<<t, "critical">>]

\* the type and severity the classification rules give an error that is no
\* DashboardError, first matching rule first
Rule(code, syntax) ==
  CASE code \in {"ENOENT", "EACCES"} -> <<"system", "high">>
    [] code \in {"ENOTFOUND", "ECONNREFUSED"} -> <<"network", "medium">>
    [] code = "" /\ syntax -> <<"data", "medium">>
    [] code = "" /\ ~syntax -> <<"system", "medium">>

\* C16: a DashboardError keeps its type and severity; any other error is
\* classified by its code first (ENOENT, EACCES: SYSTEM/HIGH; ENOTFOUND,
\* ECONNREFUSED: NETWORK/MEDIUM), then as a SyntaxError (DATA/MEDIUM), else
\* as SYSTEM/MEDIUM.
ClassificationRules ==
  /\ \A e \in TypedErrors : normalizeError(e) = e
  /\ \A i \in DOMAIN errorLog :
       LET entry == errorLog[i]
       IN entry.details.originalError # "" =>
            <<entry.type, entry.severity>> =
              Rule(entry.details.code, entry.details.originalError = "SyntaxError")

\* A SyntaxError with code ENOENT and a SyntaxError without a code have been
\* classified.
ClassificationRulesWitness ==
  /\ \E i \in DOMAIN errorLog :
       errorLog[i].details = [originalError |-> "SyntaxError", code |-> "ENOENT"]
  /\ \E i \in DOMAIN errorLog :
       errorLog[i].details = [originalError |-> "SyntaxError", code |-> ""]

\* a step in which a MEDIUM error of type t was handled
MediumHandled(t) == errorCounts'[<<t, "medium">>] > errorCounts[<<t, "medium">>]

\* C17: handling a MEDIUM error of type DATA or SYSTEM leaves the cache empty;
\* handling a MEDIUM error of type NETWORK leaves the cache as it was.
MediumRecovery ==
  [][/\ MediumHandled("data") \/ MediumHandled("system") =>
          \A k \in SourceSet : cache'[k] = NoEntry
     /\ MediumHandled("network") => cache' = cache]_vars

\* After the first cycle a NETWORK/MEDIUM and then a DATA/MEDIUM error were
\* handled; no getter is pending and the cache, full until then, is empty.
MediumRecoveryWitness ==
  /\ errorCounts[<<"network", "medium">>] = 1
  /\ errorCounts[<<"data", "medium">>] = 1
  /\ lastErrors["network"] < lastErrors["data"]
  /\ updateCount > 0
  /\ InFlight(World) = {}
  /\ \A k \in SourceSet : cache[k] = NoEntry

----------------------------------------------------------------------------
(* Forced refresh, start and stop *)

\* C18: the cycle a forced refresh starts serves no cached reading: the OS
\* query of each of the four sources is pending when handleRefresh suspends.
ForcedRefreshBypassesCache ==
  [][\A c \in Slots :
       calls[c].kind = "idle" /\ calls'[c].kind = "refresh" =>
         \A s \in SourceSet : calls'[c].pc[s] = "await"]_vars

\* A forced refresh awaits its four OS queries while a timer-driven cycle is
\* in flight and entries of that cycle are in the cache.
ForcedRefreshBypassesCacheWitness ==
  /\ calls[1].kind \in {"timer", "reduced"}
  /\ calls[2].kind = "refresh"
  /\ \A s \in SourceSet : calls[2].pc[s] = "await"

\* a step in which the periodic timer is armed for the first time
Arming == updateInterval = NoTimer /\ updateInterval' # NoTimer

\* a step in which an interval callback called updateDisplay
TickRan ==
  \/ \E c \in Slots : calls[c].kind = "idle" /\ calls'[c].kind \in {"timer", "reduced"}
  \/ /\ updateCount' > updateCount
     /\ \A c \in Slots : calls[c].kind = "idle" \/ calls'[c] = calls[c]

StopLetsCycleFinish ==
  proc = "exit0" => ~isRunning /\ CyclesInFlight(World) = {}

\* The step of a call of updatePerformanceStats
Measured == totalUpdates' = totalUpdates + 1

\* C21 as stated: after every measured cycle the running average is the
\* arithmetic mean of the durations measured so far.
AverageIsMean ==
  averageUpdateTime * totalUpdates = measuredTime

\* C21: after every measured cycle the running average is the quotient
\* (avg_{n-1}*(n-1) + t_n)/n rounded to the nearest integer, a half rounded up;
\* durations 10, 20, 30 give 10, 15, 20.
AverageIsRoundedQuotient ==
  [][Measured =>
       LET n == totalUpdates'
           t == measuredTime' - measuredTime
           totalTime == averageUpdateTime * (n - 1) + t
       IN /\ 2 * n * averageUpdateTime' <= 2 * totalTime + n
          /\ 2 * totalTime + n < 2 * n * (averageUpdateTime' + 1)
          /\ n = 1 /\ t = 10 => averageUpdateTime' = 10
          /\ n = 2 /\ averageUpdateTime = 10 /\ t = 20 => averageUpdateTime' = 15
          /\ n = 3 /\ averageUpdateTime = 15 /\ t = 30 => averageUpdateTime' = 20]_vars

\* Three cycles of 60 ms in all have been measured and the average is 20,
\* as after durations 10, 20, 30.
AverageIsRoundedQuotientWitness ==
  /\ totalUpdates = 3
  /\ measuredTime = 60
  /\ averageUpdateTime = 20

\* a step in which a refresh cycle that an interval callback started ends
TickCycleDone ==
  /\ updateCount' = updateCount + 1
  /\ \/ \E c \in Slots : calls[c].kind \in {"timer", "reduced"} /\ calls'[c].kind = "idle"
     \/ \A c \in Slots : calls[c].kind = "idle" \/ calls'[c] = calls[c]

\* C22: every refresh cycle that a timer tick executes is measured and folded
\* into the running average when it ends, totalUpdates growing by one,
\* whether the tick came from the timer armed at start or from the timer
\* armed by a cadence reduction.
EveryTickMeasured ==
  [][TickCycleDone => totalUpdates' = totalUpdates + 1]_vars

\* a step in which the updateDisplay call of slot c returns
CycleEnds(c) == calls[c].kind \in CycleKinds /\ calls'[c].kind = "idle"

\* C23: whichever of the four collections fail, the refresh cycle completes: a
\* cycle is in flight only while a query is pending, and when it ends the
\* widgets have been updated (with the default of every source that failed),
\* the sweep has run, the cycle count has grown by one, nothing went to
\* the error handler and the process goes on.
CycleSurvivesFailures ==
  /\ [](\A c \in Slots : calls[c].kind \in CycleKinds =>
          \E s \in SourceSet : calls[c].pc[s] \in {"await", "await2"})
  /\ [][\A c \in Slots : CycleEnds(c) =>
          /\ updateCount' = updateCount + 1
          /\ sweeps' = sweeps + 1
          /\ \A s \in SourceSet :
               /\ widgets'[s] \in {"data", "default"}
               /\ calls[c].pc[s] = "failed" => widgets'[s] = "default"
          /\ errorLog' = errorLog
          /\ proc' = "running"]_vars

\* A cycle in which all four collections failed has completed: it was the
\* only cycle and every widget shows a default.
CycleSurvivesFailuresWitness ==
  /\ updateCount = 1
  /\ cycleFailures = Len(Sources)
  /\ \A s \in SourceSet : widgets[s] = "default"
  /\ InFlight(World) = {}

\* a step in which a whole refresh cycle runs, every source served from the cache
CycleRunsAtOnce ==
  /\ updateCount' = updateCount + 1
  /\ \A c \in Slots : calls[c].kind \notin CycleKinds \/ calls'[c] = calls[c]

\* C24: clearExpiredCache runs once in each refresh cycle and only when all
\* four fetches of the cycle have resolved: as many sweeps have run as cycles
\* have completed, a sweep happens only in the step in which the last pending
\* fetch of a cycle resolves (or all four are served from the cache), and
\* right after it no entry of age >= cacheTimeout is left.
SweepOncePerCycle ==
  /\ [](sweeps = updateCount)
  /\ [][sweeps' # sweeps =>
          /\ sweeps' = sweeps + 1
          /\ \/ CycleRunsAtOnce
             \/ \E c \in Slots :
                  /\ CycleEnds(c)
                  /\ Cardinality({s \in SourceSet : calls[c].pc[s] \in {"await", "await2"}}) = 1
          /\ \A k \in SourceSet :
               cache'[k] # NoEntry => now' - cache'[k].timestamp < cacheTimeout]_vars
  /\ [][(\E c \in Slots : CycleEnds(c)) => sweeps' = sweeps + 1]_vars

\* One cycle has completed, one source with its default and another with a
\* reading, and the sweep has run once.
SweepOncePerCycleWitness ==
  /\ updateCount = 1
  /\ sweeps = 1
  /\ InFlight(World) = {}
  /\ \E k, j \in SourceSet : widgets[k] = "default" /\ widgets[j] = "data"

\* C25: a call of handleError adds exactly one to the count of the type and
\* severity of the error it handled, records it as the last error of its type
\* and leaves every other count and last error alone; no other step changes
\* the statistics except clearErrorLog, which empties them with the log.
ErrorCountsGrowByOne ==
  [][IF logged' = logged + 1
     THEN LET e == errorLog'[Len(errorLog')]
          IN /\ errorCounts' =
                  [errorCounts EXCEPT ![<<e.type, e.severity>>] = errorCounts[<<e.type, e.severity>>] + 1]
             /\ lastErrors' = [lastErrors EXCEPT ![e.type] = e.id]
     ELSE \/ errorCounts' = errorCounts /\ lastErrors' = lastErrors
          \/ /\ errorLog # <<>> /\ errorLog' = <<>>
             /\ \A key \in DOMAIN errorCounts : errorCounts'[key] = 0
             /\ \A t \in ErrorTypes : lastErrors'[t] = 0]_vars

\* Two errors of one type and severity have been handled.
ErrorCountsGrowByOneWitness ==
  /\ \E key \in DOMAIN errorCounts : errorCounts[key] = 2
  /\ Len(errorLog) = 2

\* C26: the timestamp of a cache entry is the instant at which the reading it
\* holds was captured from the OS.
TimestampIsCaptureInstant ==
  \A k \in SourceSet : cache[k] # NoEntry => cache[k].timestamp = cache[k].data.at

\* the entry of source s is present and younger than cacheTimeout
Fresh(s) == cache[s] # NoEntry /\ now - cache[s].timestamp < cacheTimeout

\* the OS query of the getter of source s in call c is pending
Pending(c, s) == calls[c].pc[s] \in {"await", "await2"}

\* C27: a getter called while its source has a fresh entry returns the reading
\* of that entry and invokes no OS query, then or later; a getter called
\* otherwise invokes the query, and when the query succeeds the entry of the
\* source is the returned reading, stamped now, the other entries untouched.
GetterHitOrPopulate ==
  /\ [][\A c \in Slots :
          calls[c].kind = "idle" /\ calls'[c].kind \in {"validate", "timer", "reduced"} =>
            \A s \in SourceSet :
              IF Fresh(s)
              THEN /\ calls'[c].pc[s] = "hit"
                   /\ calls'[c].res[s] = cache[s].data
                   /\ cache'[s] = cache[s]
              ELSE calls'[c].pc[s] = "await"]_vars
  /\ [][\A c \in Slots : \A s \in SourceSet :
          calls[c].pc[s] = "hit" /\ calls'[c].kind # "idle" =>
            calls'[c].pc[s] = "hit" /\ calls'[c].res[s] = calls[c].res[s]]_vars
  /\ [][\A c \in Slots : \A s \in SourceSet :
          Pending(c, s) /\ calls'[c].kind = calls[c].kind /\ calls'[c].pc[s] = "ok" =>
            /\ cache'[s] = [data |-> calls'[c].res[s], timestamp |-> now]
            /\ calls'[c].res[s].kind = "data"
            /\ \A k \in SourceSet \ {s} : cache'[k] = cache[k]]_vars
  /\ [][\A c \in Slots : \A s \in SourceSet :
          CycleEnds(c) /\ Pending(c, s) /\ widgets'[s] = "data" =>
            cache'[s] # NoEntry /\ cache'[s].timestamp = now /\ cache'[s].data.kind = "data"]_vars

\* In one call a getter was served from the cache, another missed and has
\* stored the reading of its query, a third is still waiting for its query.
GetterHitOrPopulateWitness ==
  \E c \in Slots : \E s, k, j \in SourceSet :
    /\ calls[c].pc[s] = "hit"
    /\ calls[c].pc[k] = "ok"
    /\ cache[k].data = calls[c].res[k]
    /\ Pending(c, j)

\* the sources whose OS query is pending in call c
PendingIn(c) == {s \in SourceSet : Pending(c, s)}

\* C28: all four fetches of a cycle are started together, and the cycle is
\* counted complete only when all four have resolved: while more than one
\* query of a cycle is pending the cycle stays in flight, and updateCount
\* grows (and the widgets change) only in the step in which the last pending
\* query resolves (or all four are served from the cache), every widget then
\* showing a reading or a default.
CompleteOnlyWhenAllFour ==
  /\ [](\A c \in Slots : calls[c].kind \in CycleKinds =>
          \A s \in SourceSet : calls[c].pc[s] # "idle")
  /\ [][\A c \in Slots :
          calls[c].kind \in CycleKinds /\ Cardinality(PendingIn(c)) > 1 =>
            calls'[c].kind = calls[c].kind]_vars
  /\ [][updateCount' # updateCount \/ widgets' # widgets =>
          /\ updateCount' = updateCount + 1
          /\ \/ CycleRunsAtOnce
             \/ \E c \in Slots : CycleEnds(c) /\ Cardinality(PendingIn(c)) = 1
          /\ \A s \in SourceSet : widgets'[s] \in {"data", "default"}]_vars

\* The first cycle waits for one slow source: three of its fetches have
\* resolved, nothing has been displayed or counted yet.
CompleteOnlyWhenAllFourWitness ==
  \E c \in Slots :
    /\ calls[c].kind = "init"
    /\ Cardinality(PendingIn(c)) = 1
    /\ Cardinality({s \in SourceSet : calls[c].pc[s] \in {"ok", "failed"}}) = 3
    /\ updateCount = 0
    /\ \A s \in SourceSet : widgets[s] = "blank"

\* C29: a step in which clearExpiredCache runs removes every entry whose age
\* is >= cacheTimeout, read or not, and leaves every younger entry as it was,
\* key, data and timestamp; a key without an entry gets none, unless the getter
\* that resumed in the step has just stored its reading.
SweepRemovesExactlyExpired ==
  [][sweeps' = sweeps + 1 =>
       \A k \in SourceSet :
         /\ cache[k] # NoEntry /\ now - cache[k].timestamp >= cacheTimeout
              => cache'[k] = NoEntry
         /\ cache[k] # NoEntry /\ now - cache[k].timestamp < cacheTimeout
              => cache'[k] = cache[k]
         /\ cache[k] = NoEntry
              => \/ cache'[k] = NoEntry
                 \/ cache'[k].timestamp = now /\ \E c \in Slots : Pending(c, k)]_vars

\* A cycle has just ended: the sweep removed the entry of a source whose
\* reading is displayed and kept the entry stored in the same step.
SweepRemovesExactlyExpiredWitness ==
  /\ sweeps >= 1
  /\ InFlight(World) = {}
  /\ now >= cacheTimeout
  /\ \E k, j \in SourceSet :
       /\ widgets[k] = "data" /\ cache[k] = NoEntry
       /\ cache[j] # NoEntry /\ cache[j].timestamp = now

\* C30: when a call of the getters starts, the lookup of a key whose entry
\* has age >= cacheTimeout removes that entry and reports a miss (the OS query
\* is issued); the lookup of a key with a fresh entry or with no entry leaves
\* the cache as it was for that key, the latter reporting a miss too.
ReadEvictsExpired ==
  [][\A c \in Slots :
       calls[c].kind = "idle" /\ calls'[c].kind \in {"validate", "timer", "reduced"} =>
         \A k \in SourceSet :
           /\ cache[k] # NoEntry /\ now - cache[k].timestamp >= cacheTimeout
                => cache'[k] = NoEntry /\ calls'[c].pc[k] = "await"
           /\ cache[k] # NoEntry /\ now - cache[k].timestamp < cacheTimeout
                => cache'[k] = cache[k] /\ calls'[c].pc[k] = "hit"
           /\ cache[k] = NoEntry
                => cache'[k] = NoEntry /\ calls'[c].pc[k] = "await"]_vars

\* A cycle started by a tick found the entry of one source fresh and the
\* entry of another expired: the latter is gone and its query is pending.
ReadEvictsExpiredWitness ==
  \E c \in Slots : \E k, j \in SourceSet :
    /\ calls[c].kind = "timer"
    /\ calls[c].pc[k] = "hit"
    /\ calls[c].pc[j] = "await"
    /\ cache[j] = NoEntry
    /\ refused # {}
    /\ cycleFailures = 0

----------------------------------------------------------------------------
(* Disk reading, timers, validation, shutdown *)

\* the positions of the report whose filesystem has a size above zero
RealDisks == {i \in 1..Len(fsSize) : fsSize[i].size > 0}

\* C31: the disk reading holds exactly the reported filesystems of size > 0,
\* in the order of the report: its entries correspond, one to one and in
\* increasing position, to those filesystems; when there is none the reading
\* is empty, and in no case is an error logged or counted.
DiskReadingKeepsRealDisks ==
  cache["disk"] # NoEntry =>
    /\ Len(diskReading) = Cardinality(RealDisks)
    /\ \E f \in [1..Len(diskReading) -> RealDisks] :
         /\ \A i, j \in 1..Len(diskReading) : i < j => f[i] < f[j]
         /\ \A i \in 1..Len(diskReading) : diskReading[i].filesystem = fsSize[f[i]].fs
    /\ RealDisks = {} => diskReading = <<>>
    /\ errorLog = <<>> /\ logged = 0 /\ proc = "running"

\* Three filesystems were reported, the second of size 0: the reading holds
\* the first and the third.
DiskReadingKeepsRealDisksWitness ==
  /\ Len(fsSize) = MaxDisks
  /\ fsSize[1].size > 0 /\ fsSize[2].size = 0 /\ fsSize[MaxDisks].size > 0
  /\ Len(diskReading) = MaxDisks - 1
  /\ diskReading[1].filesystem = fsSize[1].fs

\* the number of interval timers armed in the event loop
ArmedTimers == armed.loop + armed.reduced

\* C32: from the start of the update loop until shutdown or the end of the
\* process exactly one periodic timer is armed, the one the dashboard's handle
\* refers to; before the start none is.
ExactlyOneTimer ==
  Alive =>
    IF phase = "started"
    THEN /\ ArmedTimers = 1
         /\ updateInterval # NoTimer /\ armed[updateInterval.callback] = 1
    ELSE ArmedTimers = 0 /\ updateInterval = NoTimer

\* Two errors that reduce the cadence have been handled after the start: the
\* timer of the second reduction is the only one armed.
ExactlyOneTimerWitness ==
  /\ phase = "started"
  /\ proc = "running"
  /\ updateInterval = ReducedTimer
  /\ armed = [loop |-> 0, reduced |-> 1]
  /\ errorCounts[<<"ui", "high">>] = 2

\* a step in which validateSystemCapabilities gets its four results
ValidationEnds == \E c \in Slots : calls[c].kind = "validate" /\ calls'[c].kind # "validate"

\* C33: validation raises a CRITICAL error and startup is aborted exactly
\* when the collections of CPU and of memory have both failed (neither left a
\* reading); otherwise startup goes on to the first cycle, whatever became of
\* disk and network.
ValidationGate ==
  [][ValidationEnds =>
       IF cache'["cpu"] = NoEntry /\ cache'["memory"] = NoEntry
       THEN /\ phase' = "failed"
            /\ errorCounts'[<<"system", "critical">>] = errorCounts[<<"system", "critical">>] + 1
       ELSE /\ phase' \in {"initialUpdate", "started"}
            /\ errorCounts' = errorCounts]_vars

\* what a shutdown touches
ShutdownView == <<isRunning, updateInterval, armed, savedLog, screenDestroyed, proc>>

\* C34: a call of handleExit while isRunning is false, before initialize has
\* set it or at any other time, changes nothing; a call while it is true
\* resets isRunning, disarms the timer, saves the error log, destroys the
\* screen and ends the process with status 0, after which nothing runs: the
\* effects happen at most once.
ShutdownOnce ==
  /\ [][exitCalls' = exitCalls + 1 =>
          IF isRunning
          THEN /\ ~isRunning'
               /\ armed' = [loop |-> 0, reduced |-> 0]
               /\ savedLog' = [written |-> TRUE, errors |-> errorLog, statistics |-> errorCounts]
               /\ screenDestroyed'
               /\ proc' = "exit0"
               /\ ~screenDestroyed /\ proc = "running"
          ELSE ShutdownView' = ShutdownView]_vars
  /\ [][ShutdownView' # ShutdownView /\ (screenDestroyed' \/ proc' = "exit0") =>
          exitCalls' = exitCalls + 1 /\ isRunning]_vars
  /\ [](screenDestroyed <=> proc = "exit0")

\* handleExit was called twice: before initialize had set isRunning, to no
\* effect, and again while running, which shut the dashboard down.
ShutdownOnceWitness ==
  /\ exitCalls = 2
  /\ proc = "exit0"
  /\ screenDestroyed
  /\ savedLog.written

\* C35: handleExit is called only on the answer y to a confirmation dialog,
\* whether the quit came from a key or from SIGINT or SIGTERM: the request
\* itself only opens the dialog, and a dialog closed with n or escape leaves
\* isRunning, the timer, the cache and the process as they were.
QuitNeedsConfirmation ==
  /\ [](exitCalls = confirmed)
  /\ [][exitCalls' # exitCalls =>
          /\ dialogs > 0
          /\ confirmed' = confirmed + 1
          /\ dialogs' = dialogs - 1]_vars
  /\ [][(quits' # quits \/ dialogs' # dialogs) /\ confirmed' = confirmed =>
          /\ ShutdownView' = ShutdownView
          /\ cache' = cache
          /\ exitCalls' = exitCalls]_vars

\* While the dashboard runs a quit was requested and declined: it still runs,
\* its timer armed.
QuitNeedsConfirmationWitness ==
  /\ quits = 1
  /\ dialogs = 0
  /\ confirmed = 0
  /\ isRunning
  /\ proc = "running"
  /\ ArmedTimers = 1

----------------------------------------------------------------------------
(* Logger and configuration *)

\* the messages in the log file
Written == {logFile[i] : i \in 1..Len(logFile)}

\* C36: the messages are in the log file in the order of their log() calls,
\* each at most once and none both written and reported lost, and every
\* message logged is in the buffer, in an append in flight, in the file or
\* reported lost.
LogOrderKept ==
  /\ \A i, j \in 1..Len(logFile) : i < j => logFile[i] < logFile[j]
  /\ Written \cap lostMessages = {}
  /\ \A m \in 1..logCalls :
       \/ m \in Written
       \/ m \in lostMessages
       \/ \E i \in 1..Len(logBuffer) : logBuffer[i] = m
       \/ \E batch \in appending : \E i \in 1..Len(batch) : batch[i] = m


\* C37: after ConfigManager.reset(), get(key) returns the original default
\* value for every key, whatever set calls came before, sets on nested dotted
\* keys such as widgets.cpu.enabled included.
ResetRestoresDefaults ==
  justReset => \A key \in ConfigKeys : configGet(World, key) = defaultConfig[key]

====
